---- MODULE Spec2Model ----
(***************************************************************************)
(* The TimeSeries container of src/time_series.py: a thin wrapper that     *)
(* keeps a reference to a pandas Series and a name.                        *)
(*                                                                         *)
(* A pandas Series is modelled as the sequence of its (index label, value) *)
(* entries in positional order; labels may repeat and need not ascend.     *)
(* Series objects live on a heap and are held by reference, so that two    *)
(* holders of one object see each other's writes.                          *)
(***************************************************************************)
EXTENDS Integers, Sequences, FiniteSets, TLC

VARIABLES heap, ts, last

vars == <<heap, ts, last>>

(* ------------------------------ bounds --------------------------------- *)

MaxTime == 2
MaxVal == 2
MaxEntries == 3
MaxSharedEntries == 1

Timestamps == 1..MaxTime
Values == 1..MaxVal

(* ------------------------------ values --------------------------------- *)

\* The Series objects the caller owns: the ones it passes in.
Refs == {"r1", "r2"}
\* Cells no Series is ever allocated in by the code under study.
Spare == {"n1", "n2"}
TsIds == {1, 2}

SpareOf(c) == IF c = 1 THEN "n1" ELSE "n2"

PySeries(r) == [kind |-> "Series", ref |-> r]
PyOther(k) == [kind |-> k, ref |-> "-"]
NonSeries == {PyOther("list"), PyOther("dict"), PyOther("NoneType")}
PyValues == {PySeries(r) : r \in Refs} \cup NonSeries

DefaultName == "Unnamed Series"
NoArg == "<omitted>"
Names == {"S", ""}

NoObject == [_data |-> PyOther("-"), _name |-> "<no object>", alive |-> FALSE]
NaN == "NaN"

Entry(t, v) == [t |-> t, v |-> v]
Entries == {Entry(t, v) : t \in Timestamps, v \in Values}

SeqsUpTo(S, n) == UNION {[1..k -> S] : k \in 0..n}

(* ------------------- the pandas operations the code uses ---------------- *)

RECURSIVE SumOver(_, _)
SumOver(s, sq) ==
    IF s = << >> THEN 0
    ELSE (IF sq THEN Head(s).v * Head(s).v ELSE Head(s).v) + SumOver(Tail(s), sq)

ValuesOf(s) == {s[i].v : i \in DOMAIN s}
LabelsOf(s) == {s[i].t : i \in DOMAIN s}

\* Series.min() / Series.max(): NaN on an empty Series, no exception.
SeriesMin(s) ==
    IF s = << >> THEN NaN ELSE CHOOSE x \in ValuesOf(s) : \A y \in ValuesOf(s) : x <= y
SeriesMax(s) ==
    IF s = << >> THEN NaN ELSE CHOOSE x \in ValuesOf(s) : \A y \in ValuesOf(s) : y <= x

\* Series.mean(): the exact quotient num/den, NaN on an empty Series.
SeriesMean(s) ==
    IF s = << >> THEN NaN ELSE [num |-> SumOver(s, FALSE), den |-> Len(s)]

\* The k-th smallest value (1-based) of a non-empty Series.
KthSmallest(s, k) ==
    CHOOSE x \in ValuesOf(s) :
        /\ Cardinality({i \in DOMAIN s : s[i].v < x}) < k
        /\ k <= Cardinality({i \in DOMAIN s : s[i].v <= x})

\* Series.median(): the middle value, or the mean of the two middle values.
SeriesMedian(s) ==
    IF s = << >> THEN NaN
    ELSE IF Len(s) % 2 = 1 THEN [num |-> KthSmallest(s, (Len(s) + 1) \div 2), den |-> 1]
    ELSE [num |-> KthSmallest(s, Len(s) \div 2) + KthSmallest(s, Len(s) \div 2 + 1),
          den |-> 2]

\* Series.std(): sample standard deviation (ddof = 1), kept as the exact
\* quotient it is the square root of; NaN when fewer than two values.
SeriesStd(s) ==
    IF Len(s) < 2 THEN NaN
    ELSE [sqrt_num |-> Len(s) * SumOver(s, TRUE) - SumOver(s, FALSE) * SumOver(s, FALSE),
          sqrt_den |-> Len(s) * (Len(s) - 1)]

\* Series.__setitem__ with a scalar label: every entry carrying the label is
\* overwritten in place; an absent label is appended after the last entry.
SeriesSetItemPrepend(s, t, v) ==
    IF t \in LabelsOf(s)
    THEN [i \in DOMAIN s |-> IF s[i].t = t THEN Entry(t, v) ELSE s[i]]
    ELSE <<Entry(t, v)>> \o s
SeriesSetItemAlwaysAppend(s, t, v) == Append(s, Entry(t, v))
SeriesSetItem(s, t, v) ==
    IF t \in LabelsOf(s)
    THEN [i \in DOMAIN s |-> IF s[i].t = t THEN Entry(t, v) ELSE s[i]]
    ELSE Append(s, Entry(t, v))

\* Series.sort_index(): the entries in ascending label order, ties in place.
RECURSIVE SortedByLabel(_)
SortedByLabel(s) ==
    IF s = << >> THEN << >>
    ELSE LET rest == SortedByLabel(Tail(s))
         IN  SelectSeq(rest, LAMBDA e : e.t < Head(s).t) \o <<Head(s)>>
                 \o SelectSeq(rest, LAMBDA e : e.t >= Head(s).t)

(* --------------------------- class TimeSeries --------------------------- *)

\* _validate_input_data: "none", or the exception raised.
ValidateWrongClass(data) == IF data.kind # "DataFrame" THEN "TypeError" ELSE "none"
ValidateInputData(data) == IF data.kind # "Series" THEN "TypeError" ELSE "none"

\* The Series an object's _data refers to.
Stored(h, obj) == h[obj._data.ref]

\* get_summary
GetSummaryValueCount(h, obj) ==
    [mean |-> SeriesMean(Stored(h, obj)),
     median |-> SeriesMedian(Stored(h, obj)),
     std |-> SeriesStd(Stored(h, obj)),
     min |-> SeriesMin(Stored(h, obj)),
     max |-> SeriesMax(Stored(h, obj)),
     length |-> Cardinality(ValuesOf(Stored(h, obj)))]
GetSummary(h, obj) ==
    [mean |-> SeriesMean(Stored(h, obj)),
     median |-> SeriesMedian(Stored(h, obj)),
     std |-> SeriesStd(Stored(h, obj)),
     min |-> SeriesMin(Stored(h, obj)),
     max |-> SeriesMax(Stored(h, obj)),
     length |-> Len(Stored(h, obj))]

\* __repr__ and __str__: the pieces of the f-string, in order.
ReprNoName(h, obj) ==
    <<"TimeSeries(name='", "', length=", ToString(Len(Stored(h, obj))), ")">>
Repr(h, obj) ==
    <<"TimeSeries(name='", obj._name, "', length=", ToString(Len(Stored(h, obj))), ")">>
Str(h, obj) ==
    <<"TimeSeries: ", obj._name, ", Length: ", ToString(Len(Stored(h, obj)))>>

Call(op, c) ==
    [op |-> op, c |-> c, data |-> PyOther("-"), name |-> NoArg, t |-> 0, v |-> 0,
     raised |-> "none", validated |-> FALSE, ret |-> << >>]

\* Object creation: __init__ validates, then binds _data and _name; a raise
\* leaves no object.
ConstructUnchecked(c, data, name) ==
    /\ ~ts[c].alive
    /\ ts' = [ts EXCEPT ![c] =
                 [_data |-> data,
                  _name |-> IF name = NoArg THEN DefaultName ELSE name,
                  alive |-> TRUE]]
    /\ heap' = heap
    /\ last' = [Call("__init__", c) EXCEPT
                   !.data = data, !.name = name, !.validated = TRUE,
                   !.raised = ValidateInputData(data)]
ConstructSorted(c, data, name) ==
    /\ ~ts[c].alive
    /\ IF ValidateInputData(data) # "none"
       THEN ts' = ts /\ heap' = heap
       ELSE /\ ts' = [ts EXCEPT ![c] =
                         [_data |-> data,
                          _name |-> IF name = NoArg THEN DefaultName ELSE name,
                          alive |-> TRUE]]
            /\ heap' = [heap EXCEPT ![data.ref] = SortedByLabel(heap[data.ref])]
    /\ last' = [Call("__init__", c) EXCEPT
                   !.data = data, !.name = name, !.validated = TRUE,
                   !.raised = ValidateInputData(data)]
Construct(c, data, name) ==
    /\ ~ts[c].alive
    /\ IF ValidateInputData(data) # "none"
       THEN ts' = ts
       ELSE ts' = [ts EXCEPT ![c] =
                      [_data |-> data,
                       _name |-> IF name = NoArg THEN DefaultName ELSE name,
                       alive |-> TRUE]]
    /\ heap' = heap
    /\ last' = [Call("__init__", c) EXCEPT
                   !.data = data, !.name = name, !.validated = TRUE,
                   !.raised = ValidateInputData(data)]

\* data (getter): the bound object itself.
DataGet(c) ==
    /\ ts[c].alive
    /\ last' = [Call("data", c) EXCEPT !.ret = ts[c]._data]
    /\ UNCHANGED <<heap, ts>>

\* data (setter): validates, then rebinds _data.
DataSetStoreFirst(c, new_data) ==
    /\ ts[c].alive
    /\ ts' = [ts EXCEPT ![c]._data = new_data]
    /\ heap' = heap
    /\ last' = [Call("data=", c) EXCEPT
                   !.data = new_data, !.validated = TRUE,
                   !.raised = ValidateInputData(new_data)]
DataSet(c, new_data) ==
    /\ ts[c].alive
    /\ IF ValidateInputData(new_data) # "none"
       THEN ts' = ts
       ELSE ts' = [ts EXCEPT ![c]._data = new_data]
    /\ heap' = heap
    /\ last' = [Call("data=", c) EXCEPT
                   !.data = new_data, !.validated = TRUE,
                   !.raised = ValidateInputData(new_data)]

\* name (getter)
NameGet(c) ==
    /\ ts[c].alive
    /\ last' = [Call("name", c) EXCEPT !.ret = ts[c]._name]
    /\ UNCHANGED <<heap, ts>>

\* name (setter): no validation.
NameSetIgnored(c, new_name) ==
    /\ ts[c].alive
    /\ ts' = ts
    /\ heap' = heap
    /\ last' = [Call("name=", c) EXCEPT !.name = new_name]
NameSet(c, new_name) ==
    /\ ts[c].alive
    /\ ts' = [ts EXCEPT ![c]._name = new_name]
    /\ heap' = heap
    /\ last' = [Call("name=", c) EXCEPT !.name = new_name]

\* get_summary
Summary(c) ==
    /\ ts[c].alive
    /\ last' = [Call("get_summary", c) EXCEPT !.ret = GetSummary(heap, ts[c])]
    /\ UNCHANGED <<heap, ts>>

\* add_value: item assignment on the bound Series, which changes that object.
AddValueRebind(c, t, v) ==
    /\ ts[c].alive
    /\ heap' = [heap EXCEPT ![SpareOf(c)] = SeriesSetItem(Stored(heap, ts[c]), t, v)]
    /\ ts' = [ts EXCEPT ![c]._data = PySeries(SpareOf(c))]
    /\ last' = [Call("add_value", c) EXCEPT !.t = t, !.v = v]
AddValue(c, t, v) ==
    /\ ts[c].alive
    /\ heap' = [heap EXCEPT ![ts[c]._data.ref] = SeriesSetItem(Stored(heap, ts[c]), t, v)]
    /\ ts' = ts
    /\ last' = [Call("add_value", c) EXCEPT !.t = t, !.v = v]

\* plot: hands the Series, the title and the axis labels to the plotting
\* library and shows the figure.
Plot(c) ==
    /\ ts[c].alive
    /\ last' = [Call("plot", c) EXCEPT
                   !.ret = [series |-> ts[c]._data, title |-> ts[c]._name,
                            xlabel |-> "Time", ylabel |-> "Value"]]
    /\ UNCHANGED <<heap, ts>>

\* repr(obj) and str(obj)
ReprCall(c) ==
    /\ ts[c].alive
    /\ last' = [Call("__repr__", c) EXCEPT !.ret = Repr(heap, ts[c])]
    /\ UNCHANGED <<heap, ts>>
StrCall(c) ==
    /\ ts[c].alive
    /\ last' = [Call("__str__", c) EXCEPT !.ret = Str(heap, ts[c])]
    /\ UNCHANGED <<heap, ts>>

(* ---------------------------- specifications ---------------------------- *)

Heap(a, b) ==
    [r \in Refs \cup Spare |-> IF r = "r1" THEN a ELSE IF r = "r2" THEN b ELSE << >>]

\* The caller stops adding new timestamps once the Series hold n entries
\* together; overwriting an existing timestamp is always possible.
Room(c, t, n) ==
    /\ ts[c].alive
    /\ \/ t \in LabelsOf(Stored(heap, ts[c]))
       \/ Len(heap["r1"]) + Len(heap["r2"]) < n

\* One Series of any content, one container, every operation.
Init ==
    /\ \E a \in SeqsUpTo(Entries, MaxEntries) : heap = Heap(a, << >>)
    /\ ts = [c \in TsIds |-> NoObject]
    /\ last = Call("start", 0)

Args == {PySeries("r1")} \cup NonSeries

Next ==
    \/ \E data \in Args, name \in Names \cup {NoArg} : Construct(1, data, name)
    \/ DataGet(1)
    \/ \E data \in Args : DataSet(1, data)
    \/ NameGet(1)
    \/ \E name \in Names : NameSet(1, name)
    \/ Summary(1)
    \/ \E t \in Timestamps, v \in Values : Room(1, t, MaxEntries) /\ AddValue(1, t, v)
    \/ Plot(1)
    \/ ReprCall(1)
    \/ StrCall(1)

Spec == Init /\ [][Next]_vars

\* Two Series and two containers: the operations that bind, change and read
\* the Series.
InitShared ==
    /\ \E a \in SeqsUpTo(Entries, MaxSharedEntries) :
           \E b \in SeqsUpTo(Entries, MaxSharedEntries - Len(a)) : heap = Heap(a, b)
    /\ ts = [c \in TsIds |-> NoObject]
    /\ last = Call("start", 0)

ArgsShared == {PySeries(r) : r \in Refs} \cup {PyOther("list")}

NextShared ==
    \/ \E c \in TsIds, data \in ArgsShared, name \in {"S", NoArg} : Construct(c, data, name)
    \/ \E c \in TsIds : DataGet(c)
    \/ \E c \in TsIds, data \in ArgsShared : DataSet(c, data)
    \/ \E c \in TsIds : Summary(c)
    \/ \E c \in TsIds, t \in Timestamps, v \in Values :
           Room(c, t, MaxSharedEntries + 1) /\ AddValue(c, t, v)

SpecShared == InitShared /\ [][NextShared]_vars

(* ------------------------------- properties ----------------------------- *)

Bound(c) == Stored(heap, ts[c])
Bound2(c) == Stored(heap', ts'[c])
WithLabel(s, u) == SelectSeq(s, LAMBDA e : e.t = u)
UniqueLabels(s) == \A i, j \in DOMAIN s : i # j => s[i].t # s[j].t
Ascending(s) == \A i \in 1..(Len(s) - 1) : s[i].t < s[i + 1].t

\* C1: construction succeeds exactly when the argument is a Series, of any
\* length, whatever the name; otherwise it raises TypeError and no object
\* exists.
C1_ConstructionAcceptsExactlySeries ==
    last.op = "__init__" =>
        /\ last.raised = "none" <=> last.data.kind = "Series"
        /\ last.raised # "none" => last.raised = "TypeError" /\ ~ts[last.c].alive
        /\ last.raised = "none" => ts[last.c].alive /\ ts[last.c]._data = last.data

C1_EmptyAccepted ==
    /\ last.op = "__init__"
    /\ last.raised = "none"
    /\ last.name = "S"
    /\ Bound(last.c) = << >>

\* C2: assigning a non-Series to data raises TypeError and leaves the bound
\* sequence, its entries and the name as they were; assigning a Series binds
\* it in place of the previous one.
C2_DataAssignment ==
    [][last'.op = "data=" =>
          IF last'.data.kind # "Series"
          THEN /\ last'.raised = "TypeError"
               /\ ts' = ts
               /\ heap' = heap
          ELSE /\ last'.raised = "none"
               /\ ts'[last'.c]._data = last'.data
               /\ Bound2(last'.c) = heap[last'.data.ref]
               /\ ts'[last'.c]._name = ts[last'.c]._name]_vars

C2_RejectedAssignment ==
    /\ last.op = "data="
    /\ last.raised = "TypeError"
    /\ ts[last.c]._name = "S"
    /\ Len(Bound(last.c)) = 2

\* C3 as claimed: in every reachable state the stored sequence has unique
\* timestamps in ascending order.
C3_AlwaysAscendingUnique ==
    \A c \in TsIds : ts[c].alive => Ascending(Bound(c))

\* C3 as amended: add_value keeps every existing entry at its position and
\* puts a new timestamp after the last entry; unique timestamps stay unique,
\* and an ascending sequence stays ascending when the timestamp was present
\* or later than all existing ones.
C3_AddValueAppends ==
    [][last'.op = "add_value" =>
          LET s == Bound(last'.c)
              s2 == Bound2(last'.c)
              t == last'.t
          IN  /\ \A i \in DOMAIN s : i \in DOMAIN s2 /\ s2[i].t = s[i].t
              /\ t \notin LabelsOf(s) => Len(s2) = Len(s) + 1 /\ s2[Len(s2)].t = t
              /\ UniqueLabels(s) => UniqueLabels(s2)
              /\ (Ascending(s) /\ (t \in LabelsOf(s) \/ \A i \in DOMAIN s : s[i].t < t))
                     => Ascending(s2)]_vars

C3_EarlierTimestampLast ==
    /\ last.op = "add_value"
    /\ Len(Bound(last.c)) >= 2
    /\ UniqueLabels(Bound(last.c))
    /\ Bound(last.c)[Len(Bound(last.c))].t = last.t
    /\ last.t < Bound(last.c)[1].t

\* C4 as claimed: the stored data is always a Series, and construction and
\* every change to the stored sequence (assignment and add_value) validate.
C4_EveryMutationValidates ==
    [][/\ \A c \in TsIds : ts'[c].alive => ts'[c]._data.kind = "Series"
       /\ (ts' # ts \/ heap' # heap) /\ last'.op # "name=" => last'.validated]_vars

\* C4 as amended: the stored data is always a Series that validation accepts;
\* construction and assignment validate, add_value does not.
C4_AlwaysSeries ==
    /\ \A c \in TsIds :
           ts[c].alive => ts[c]._data.kind = "Series" /\ ValidateInputData(ts[c]._data) = "none"
    /\ last.op \in {"__init__", "data="} => last.validated
    /\ last.op = "add_value" => ~last.validated

C4_AddedWithoutValidation ==
    /\ last.op = "add_value"
    /\ ~last.validated
    /\ ts[last.c]._data.kind = "Series"
    /\ Len(Bound(last.c)) = 3

\* C5: after add_value(t, v) the value at t is v, every other timestamp keeps
\* its entries, the count is unchanged if t was present and one more if not,
\* and get_summary reports the count of the state it is called in.
C5_AddValueSetsOnePoint ==
    [][/\ last'.op = "add_value" =>
              LET s == Bound(last'.c)
                  s2 == Bound2(last'.c)
                  t == last'.t
                  v == last'.v
              IN  /\ t \in LabelsOf(s2)
                  /\ \A i \in DOMAIN s2 : s2[i].t = t => s2[i].v = v
                  /\ \A u \in Timestamps \ {t} : WithLabel(s2, u) = WithLabel(s, u)
                  /\ Len(s2) = Len(s) + (IF t \in LabelsOf(s) THEN 0 ELSE 1)
                  /\ GetSummary(heap', ts'[last'.c]).length = Len(s2)
       /\ last'.op = "get_summary" => last'.ret.length = Len(Bound(last'.c))]_vars

C5_OverwroteRepeatedTimestamp ==
    /\ last.op = "add_value"
    /\ \E i, j \in DOMAIN Bound(last.c) :
           /\ i # j
           /\ Bound(last.c)[i] = Entry(last.t, last.v)
           /\ Bound(last.c)[j] = Entry(last.t, last.v)
    /\ \E i \in DOMAIN Bound(last.c) : Bound(last.c)[i].t # last.t

C7_NameAlwaysPresent ==
    [][/\ \A c \in TsIds : ts'[c].alive => ts'[c]._name \in Names \cup {DefaultName}
       /\ (last'.op = "__init__" /\ last'.raised = "none") =>
              ts'[last'.c]._name = (IF last'.name = NoArg THEN DefaultName ELSE last'.name)
       /\ last'.op = "name=" => ts'[last'.c]._name = last'.name
       /\ last'.op = "name" => last'.ret = ts[last'.c]._name
       /\ last'.op \notin {"__init__", "name="} =>
              \A c \in TsIds : ts'[c]._name = ts[c]._name]_vars

C7_EmptyNameAssigned ==
    /\ last.op = "name="
    /\ last.name = ""
    /\ ts[last.c]._name = ""

\* C8: get_summary, repr and str change neither the stored sequence nor the
\* name and do not raise, also on an empty sequence; both texts hold the
\* current name and the current element count.
C8_ReadOnlyOperations ==
    [][last'.op \in {"get_summary", "__repr__", "__str__"} =>
          /\ heap' = heap
          /\ ts' = ts
          /\ last'.raised = "none"
          /\ last'.op \in {"__repr__", "__str__"} =>
                 /\ \E i \in DOMAIN last'.ret : last'.ret[i] = ts[last'.c]._name
                 /\ \E i \in DOMAIN last'.ret :
                        last'.ret[i] = ToString(Len(Bound(last'.c)))]_vars

C8_ReprOfEmpty ==
    /\ last.op = "__repr__"
    /\ Bound(last.c) = << >>
    /\ last.ret[2] = "S"
    /\ last.ret[4] = "0"

\* C9: constructing with a Series S, or assigning S to data, and then reading
\* data gives the entries of S, in the order of S.
C9_StoreAndReadBack ==
    [][/\ (last'.op \in {"__init__", "data="} /\ last'.raised = "none") =>
              /\ Bound2(last'.c) = heap[last'.data.ref]
              /\ heap' = heap
       /\ last'.op = "data" =>
              /\ last'.ret.kind = "Series"
              /\ heap'[last'.ret.ref] = Bound(last'.c)]_vars

C9_ReadBackUnordered ==
    /\ last.op = "data"
    /\ Len(heap[last.ret.ref]) = 2
    /\ heap[last.ret.ref][2].t < heap[last.ret.ref][1].t

\* C10: the container holds the object it was given and data returns that
\* object, so add_value shows through the caller's reference and through
\* every other container bound to the same object.
C10_SharedObject ==
    [][/\ \A c \in TsIds : ts'[c].alive => ts'[c]._data.ref \in Refs
       /\ (last'.op \in {"__init__", "data="} /\ last'.raised = "none") =>
              ts'[last'.c]._data = last'.data
       /\ last'.op = "data" => last'.ret = ts[last'.c]._data
       /\ last'.op = "add_value" =>
              /\ heap'[ts[last'.c]._data.ref] = SeriesSetItem(Bound(last'.c), last'.t, last'.v)
              /\ \A d \in TsIds :
                     (ts[d].alive /\ ts[d]._data = ts[last'.c]._data) =>
                         /\ ts'[d]._data = ts[d]._data
                         /\ Bound2(d) = SeriesSetItem(Bound(d), last'.t, last'.v)
                         /\ last'.t \notin LabelsOf(Bound(d)) =>
                                GetSummary(heap', ts'[d]).length = Len(Bound(d)) + 1]_vars

C10_OtherContainerGrew ==
    /\ last.op = "add_value"
    /\ \A c \in TsIds : ts[c].alive
    /\ ts[1]._data = ts[2]._data
    /\ Len(Bound(3 - last.c)) = 2
    /\ Bound(3 - last.c)[2] = Entry(last.t, last.v)

====
